---- MODULE Spec2Model ----
(***************************************************************************)
(* A model of cngi.conversion.convert_image: the discovery of the image    *)
(* artifacts that share the shape of the first one found, and the channel  *)
(* batches read from every compatible artifact and written to the zarr     *)
(* store.  The casatools image tool, numpy and xarray are modelled by what *)
(* the calls made at the cited lines do.                                   *)
(***************************************************************************)
EXTENDS Integers, Sequences, FiniteSets, TLC

\* ------------------------------------------------------------------ bounds
MaxNx == 2      \* extent of each sky axis of an image on disk is 1..MaxNx
MaxChan == 3    \* number of channels of the images is 1..MaxChan
MaxPol == 2     \* number of polarizations of the images is 1..MaxPol

\* ----------------------------------------------------------------- helpers
Range(s) == {s[k] : k \in DOMAIN s}

Min(a, b) == IF a < b THEN a ELSE b

RECURSIVE Product(_)
Product(s) == IF s = <<>> THEN 1 ELSE Head(s) * Product(Tail(s))

\* list.index(e): the first position of e (positions count from 1 here)
IndexOf(s, e) == CHOOSE k \in DOMAIN s : s[k] = e /\ \A m \in 1..(k - 1) : s[m] # e

\* [_ for _ in lst if _ != e]
Without(lst, e) == SelectSeq(lst, LAMBDA x : x # e)

\* the empty mapping {}
EmptyMap == [v \in {} |-> 0]

NoHandle == "closed"

\* ------------------------------------------------------------------- state
VARIABLES
    \* arguments of convert_image
    suffix,        \* infile[infile.rindex('.') + 1:]
    artifacts,     \* the artifacts argument: <<"None">> for None, else the list
    chunk_shape,   \* the chunk_shape argument
    chunkIsList,   \* whether chunk_shape supports item assignment
    nofile,        \* the nofile argument
    \* the file system and the images on it
    disk,          \* image type -> 0 when prefix.type is absent, else its sky extent
    masks,         \* the image types whose summary()['masks'] is not empty
    axisnames,     \* summary()['axisnames'] of the images, in native order
    nchan,         \* length of the Frequency axis of the images
    npol,          \* length of the Stokes axis of the images
    refval,        \* world value of channel 0 in the coordinate system
    outfile,       \* what is at the output path
    outfile0,      \* what was at the output path when convert_image was called
    \* locals of convert_image
    pc,            \* position in the function
    err,           \* the exception that ended the call, "" when none
    cands,         \* the list the discovery loop iterates
    i,             \* position of the discovery loop in cands
    imtypes, diftypes, meta,
    IA,            \* the image the image tool has open, NoHandle when none
    chan_batch, chan, pt, chunk_coords, xdas, j, xds,
    storeOps,      \* the operations issued on the output path, in order
    result         \* the returned dataset

args == <<suffix, artifacts, chunk_shape, chunkIsList, nofile>>
world == <<disk, masks, axisnames, nchan, npol, refval, outfile0>>
locals == <<pc, err, cands, i, imtypes, diftypes, meta, IA, chan_batch, chan, pt,
            chunk_coords, xdas, j, xds, result>>
vars == <<args, world, locals, outfile, storeOps>>

\* ------------------------------------------------- the images (casatools)
\* line 96: lower(), ' ' -> '_', 'stokes' -> 'pol', 'frequency' -> 'chan'
CoordName(ss) ==
    CASE ss = "Right Ascension" -> "right_ascension"
      [] ss = "Declination" -> "declination"
      [] ss = "Stokes" -> "pol"
      [] ss = "Frequency" -> "chan"

\* summary()['axisunits']
AxisUnit(ss) ==
    CASE ss \in {"Right Ascension", "Declination"} -> "rad"
      [] ss = "Stokes" -> ""
      [] ss = "Frequency" -> "Hz"

\* IA.shape() of prefix.imtype
ImShape(imtype) ==
    [dd \in DOMAIN axisnames |->
        CASE AxisUnit(axisnames[dd]) = "rad" -> disk[imtype]
          [] axisnames[dd] = "Stokes" -> npol
          [] axisnames[dd] = "Frequency" -> nchan]

\* 'd' + str(dd), dd counted from 0 in the source
DName(dd) == <<"d0", "d1", "d2", "d3">>[dd]

\* IA.coordsys().toworldmany(): pixel index -> world value on one axis
ToWorld(ss, px) ==
    CASE ss = "Frequency" -> refval + 2 * px
      [] ss = "Stokes" -> px + 1
      [] ss = "Right Ascension" -> 50 - px
      [] ss = "Declination" -> 30 + px

\* line 100
SphrDims(names) == {dd \in DOMAIN names : AxisUnit(names[dd]) = "rad"}

\* line 109
CartDims(names) == {dd \in DOMAIN names : dd \notin SphrDims(names)}

\* line 121
Dims(names) ==
    [dd \in DOMAIN names |->
        IF dd \in CartDims(names) THEN CoordName(names[dd]) ELSE DName(dd)]

\* np.mgrid over the spherical dimensions: every joint pixel index
GridIdx(sext) ==
    LET m == CHOOSE x \in {sext[d] : d \in DOMAIN sext} :
                 \A d \in DOMAIN sext : sext[d] <= x
    IN  {p \in [DOMAIN sext -> 0..(m - 1)] : \A d \in DOMAIN sext : p[d] < sext[d]}

\* lines 98-116: the coordinate mapping of an image of shape ims.  A spherical
\* coordinate is a grid over all the spherical dimensions, a cartesian one a
\* vector over its own dimension.
Coords(names, ims) ==
    LET sphr == SphrDims(names)
        sdims == {DName(dd) : dd \in sphr}
        spi == SelectSeq(Dims(names), LAMBDA d : d \in sdims)
        sext == [d \in sdims |-> ims[IndexOf(Dims(names), d)]]
    IN  [cn \in {CoordName(names[dd]) : dd \in DOMAIN names} |->
            LET dd == CHOOSE d \in DOMAIN names : CoordName(names[d]) = cn
            IN  IF dd \in sphr
                THEN [dims |-> spi,
                      shape |-> [k \in DOMAIN spi |-> sext[spi[k]]],
                      vals |-> [p \in GridIdx(sext) |-> ToWorld(names[dd], p[DName(dd)])]]
                ELSE [dims |-> <<cn>>,
                      shape |-> <<ims[dd]>>,
                      vals |-> [k \in 1..ims[dd] |-> ToWorld(names[dd], k - 1)]]]

\* ------------------------------------------------------ convert_image code
\* line 86
DefaultTypes == <<"image.pbcor", "mask", "model", "pb", "psf", "residual", "sumwt", "weight">>

\* lines 85-89
InitialImtypes(sfx, arts) ==
    IF arts = <<"None">>
    THEN IF sfx \notin Range(DefaultTypes) THEN <<sfx>> \o DefaultTypes ELSE DefaultTypes
    ELSE <<sfx>> \o arts

\* line 92: os.path.exists(prefix + '.' + imtype)
Exists(imtype) == imtype \in DOMAIN disk /\ disk[imtype] > 0

\* lines 119-121: the metadata of the open image
Tm(imtype) ==
    [set |-> TRUE,
     coords |-> Coords(axisnames, ImShape(imtype)),
     dsize |-> ImShape(imtype),
     dims |-> Dims(axisnames)]

\* meta = {}
NoMeta == [set |-> FALSE, coords |-> EmptyMap, dsize |-> <<>>, dims |-> <<>>]

\* line 143 without the exemption of sumwt
MismatchNoExemption(dsize, shape, imtype) ==
    \E dd \in DOMAIN dsize : dsize[dd] # shape[dd]

\* line 143: np.any(meta['dsize'] != shape) & (imtype != 'sumwt')
Mismatch(dsize, shape, imtype) ==
    (\E dd \in DOMAIN dsize : dsize[dd] # shape[dd]) /\ imtype # "sumwt"

\* lines 148, 186 with the close left out
LeftOpen(h) == h

\* lines 148, 186: the image tool after IA.close()
Closed(h) == NoHandle

\* nothing at the output path
NoStore == [exists |-> FALSE, old |-> FALSE, vars |-> EmptyMap, coords |-> EmptyMap]

\* what a previous run left at the output path
OldStore == [exists |-> TRUE, old |-> TRUE, vars |-> EmptyMap, coords |-> EmptyMap]

\* an operation issued on the output path
StoreOp(op, c, n) == [op |-> op, chan |-> c, size |-> n]

\* lines 72-73: the output path after os.system("rm -fr " + outfile)
Removed(nf, out) == IF nf THEN out ELSE NoStore

\* lines 59-89
Setup ==
    /\ pc = "start"
    /\ outfile' = Removed(nofile, outfile)
    /\ storeOps' = IF nofile THEN storeOps
                             ELSE Append(storeOps, StoreOp("rm", 0, 0))
    /\ imtypes' = InitialImtypes(suffix, artifacts)
    /\ cands' = InitialImtypes(suffix, artifacts)
    /\ i' = 1
    /\ pc' = "discover"
    /\ UNCHANGED <<args, world, err, diftypes, meta, IA, chan_batch, chan, pt,
                   chunk_coords, xdas, j, xds, result>>

\* lines 91-92, 149-150: the candidate is not on disk
DiscoverAbsent ==
    /\ pc = "discover"
    /\ i <= Len(cands)
    /\ ~Exists(cands[i])
    /\ imtypes' = Without(imtypes, cands[i])
    /\ i' = i + 1
    /\ UNCHANGED <<args, world, outfile, storeOps, pc, err, cands, diftypes, meta, IA,
                   chan_batch, chan, pt, chunk_coords, xdas, j, xds, result>>

\* lines 91-93: the candidate is on disk and is opened
DiscoverOpen ==
    /\ pc = "discover"
    /\ i <= Len(cands)
    /\ Exists(cands[i])
    /\ IA' = cands[i]
    /\ pc' = "summary"
    /\ UNCHANGED <<args, world, outfile, storeOps, err, cands, i, imtypes, diftypes, meta,
                   chan_batch, chan, pt, chunk_coords, xdas, j, xds, result>>

\* lines 94-148: the metadata of the open image is read and compared with the
\* reference, and the image is closed
DiscoverCompare ==
    /\ pc = "summary"
    /\ LET imtype == cands[i]
           tm == Tm(IA)
       IN  IF ~meta.set
           THEN meta' = tm /\ UNCHANGED <<imtypes, diftypes>>
           ELSE IF Mismatch(meta.dsize, tm.dsize, imtype)
                THEN /\ diftypes' = Append(diftypes, imtype)
                     /\ imtypes' = Without(imtypes, imtype)
                     /\ UNCHANGED meta
                ELSE UNCHANGED <<meta, imtypes, diftypes>>
    /\ IA' = Closed(IA)
    /\ i' = i + 1
    /\ pc' = "discover"
    /\ UNCHANGED <<args, world, outfile, storeOps, err, cands, chan_batch, chan, pt,
                   chunk_coords, xdas, j, xds, result>>

\* the call ends with exception e
Raise(e) == pc' = "failed" /\ err' = e

\* line 160 with the batch size taken from chunk_shape in every mode
ChanBatchOfChunkShape(nf, n, c3) == c3

\* line 160
ChanBatch(nf, n, c3) == IF nf THEN n ELSE c3

\* line 163: pt1[chan_dim], pt2[chan_dim]
Corners(c, b) == <<c, c + b - 1>>

\* line 165: np.arange(chan_batch) + chan
ChanCoord(c, b) == [k \in 1..b |-> (k - 1) + c]

\* lines 164-165
ChunkCoords(coords, c, b) ==
    [coords EXCEPT !["chan"] = [dims |-> <<"chan">>, shape |-> <<b>>, vals |-> ChanCoord(c, b)]]

\* lines 171, 183: IA.getchunk(pt1, pt2) of prefix.imtype, -1 on every axis but the
\* channel axis.  The image tool replaces a corner outside the image by the
\* image's own corner.
GetChunk(imtype, blc, trc) ==
    LET lo == IF blc < 0 \/ blc > nchan - 1 THEN 0 ELSE blc
        hi == IF trc < 0 \/ trc > nchan - 1 THEN nchan - 1 ELSE trc
    IN  [shape |-> [dd \in DOMAIN axisnames |->
                       IF axisnames[dd] = "Frequency" THEN hi - lo + 1
                       ELSE ImShape(imtype)[dd]],
         chans |-> [k \in 1..(hi - lo + 1) |-> lo + k - 1]]

\* an xarray.DataArray: its dimension names and shape, and the data it holds
\* (which image, pixels or pixel mask, cast to bool or not, which channels)
DataArray(chunk, dims, imtype, kind, asbool) ==
    [dims |-> dims, shape |-> chunk.shape, src |-> imtype, kind |-> kind,
     bool |-> asbool, chans |-> chunk.chans]

\* line 176: whether imchunk.reshape(imchunk.shape[2], 1) has the elements for it
CanReshape(shape) == Len(shape) >= 3 /\ Product(shape) = shape[3] * 1

\* line 176: the shape after the reshape
Reshaped(chunk) == [chunk EXCEPT !.shape = <<chunk.shape[3], 1>>]

\* line 172 and the keys of lines 174-178 with the mask image stored as 'mask'
VarNameOfType(imtype) == IF imtype = "fits" THEN "image" ELSE imtype

\* line 172 and the keys of lines 174-178
VarName(imtype) ==
    CASE imtype = "fits" -> "image"
      [] imtype = "mask" -> "deconvolve"
      [] OTHER -> imtype

\* lines 172-178: xdas after the pixel data of imtype is stored
WithPixels(xd, imtype, chunk, dims) ==
    CASE imtype = "mask" ->
            (VarName(imtype) :> DataArray(chunk, dims, imtype, "pixels", TRUE)) @@ xd
      [] imtype = "sumwt" ->
            (VarName(imtype) :> DataArray(Reshaped(chunk), <<"pol", "chan">>, imtype,
                                          "pixels", FALSE)) @@ xd
      [] OTHER ->
            (VarName(imtype) :> DataArray(chunk, dims, imtype, "pixels", FALSE)) @@ xd

\* lines 181-184: xdas after the pixel mask of imtype, if it has one, is stored
WithMask(xd, imtype, chunk, dims) ==
    IF imtype \in masks
    THEN ("mask" :> DataArray(chunk, dims, imtype, "pixelmask", TRUE)) @@ xd
    ELSE xd

\* ------------------------------------------------------------------ xarray
\* the (dimension, size) pairs of an array
DimSizes(a) == {<<a.dims[k], a.shape[k]>> : k \in DOMAIN a.dims}

\* the (dimension, size) pairs of the variables and coordinates of a dataset
AllSizes(ds) ==
    UNION ({DimSizes(ds.vars[v]) : v \in DOMAIN ds.vars}
           \cup {DimSizes(ds.coords[c]) : c \in DOMAIN ds.coords})

\* Dataset.dims
DsDims(ds) == {p[1] : p \in AllSizes(ds)}

\* xarray.Dataset() raises on conflicting sizes of a dimension
Aligned(ds) == \A p, q \in AllSizes(ds) : p[1] = q[1] => p[2] = q[2]

\* line 189
Dataset(xd, coords) == [vars |-> xd, coords |-> coords]

\* Variable.transpose: the dimensions of a in the order they have in order
TransposeArray(a, order) ==
    LET keep == SelectSeq(order, LAMBDA d : d \in Range(a.dims))
    IN  [a EXCEPT !.dims = keep,
                  !.shape = [k \in DOMAIN keep |-> a.shape[IndexOf(a.dims, keep[k])]]]

\* line 192: the order asked of Dataset.transpose
TransposeOrder(ds) ==
    <<ds.vars["image"].dims[1], ds.vars["image"].dims[2], "chan", "pol">>

\* line 192: whether Dataset.transpose accepts the order (xds.image must exist,
\* and the order must be a permutation of the dataset's dimensions)
CanTranspose(ds) ==
    /\ "image" \in DOMAIN ds.vars
    /\ Len(ds.vars["image"].dims) >= 2
    /\ Range(TransposeOrder(ds)) = DsDims(ds)
    /\ Cardinality(Range(TransposeOrder(ds))) = Len(TransposeOrder(ds))

\* line 192
Transposed(ds) ==
    [vars |-> [v \in DOMAIN ds.vars |-> TransposeArray(ds.vars[v], TransposeOrder(ds))],
     coords |-> [c \in DOMAIN ds.coords |->
                    [ds.coords[c] EXCEPT
                        !.dims = TransposeArray(ds.coords[c], TransposeOrder(ds)).dims,
                        !.shape = TransposeArray(ds.coords[c], TransposeOrder(ds)).shape]]]

\* the number of channels a dataset holds
ChanSize(ds) == ds.coords["chan"].shape[1]

\* lines 194-199 with the store created anew by every batch
WriteModeAlwaysCreate(c, nf) == IF ~nf THEN "w" ELSE ""

\* line 194-199: "w" creates the store, "a" appends to it, "" leaves it alone
WriteMode(c, nf) == IF c = 0 /\ ~nf THEN "w" ELSE IF ~nf THEN "a" ELSE ""

\* to_zarr(mode='a', append_dim='chan'): a grown along its channel dimension by b
AppendArray(a, b) ==
    IF "chan" \in Range(a.dims)
    THEN [a EXCEPT !.shape[IndexOf(a.dims, "chan")] = @ + b.shape[IndexOf(b.dims, "chan")],
                   !.chans = @ \o b.chans]
    ELSE a

\* lines 197, 199: the store after the dataset is written with the mode
Written(store, ds, mode) ==
    CASE mode = "w" -> [exists |-> TRUE, old |-> FALSE, vars |-> ds.vars, coords |-> ds.coords]
      [] mode = "a" ->
            [store EXCEPT
                !.vars = [v \in DOMAIN store.vars |->
                             IF v \in DOMAIN ds.vars THEN AppendArray(@[v], ds.vars[v]) ELSE @[v]],
                !.coords["chan"] =
                    [@ EXCEPT !.shape = <<@[1] + ds.coords["chan"].shape[1]>>,
                              !.vals = @ \o ds.coords["chan"].vals]]
      [] OTHER -> store

\* ------------------------------------------------------------ the batches
\* lines 157-160, reached when the discovery loop has ended
Prepare ==
    /\ pc = "discover"
    /\ i > Len(cands)
    /\ IF ~meta.set
       THEN Raise("KeyError") /\ UNCHANGED <<chunk_shape, chan_batch, chan>>
       ELSE LET n == meta.dsize[IndexOf(meta.dims, "chan")]
            IN  IF chunk_shape[4] <= 0 /\ ~chunkIsList
                THEN Raise("TypeError") /\ UNCHANGED <<chunk_shape, chan_batch, chan>>
                ELSE /\ chunk_shape' = IF chunk_shape[4] <= 0
                                       THEN [chunk_shape EXCEPT ![4] = n]
                                       ELSE chunk_shape
                     /\ chan_batch' = ChanBatch(nofile, n, chunk_shape'[4])
                     /\ chan' = 0
                     /\ pc' = "batch"
                     /\ UNCHANGED err
    /\ UNCHANGED <<suffix, artifacts, chunkIsList, nofile, world, outfile, storeOps, cands,
                   i, imtypes, diftypes, meta, IA, pt, chunk_coords, xdas, j, xds, result>>

\* lines 161-166: the next batch of range(0, dsize[chan_dim], chan_batch) begins
BatchBegin ==
    /\ pc = "batch"
    /\ chan < meta.dsize[IndexOf(meta.dims, "chan")]
    /\ pt' = Corners(chan, chan_batch)
    /\ chunk_coords' = ChunkCoords(meta.coords, chan, chan_batch)
    /\ xdas' = EmptyMap
    /\ j' = 1
    /\ pc' = "artifact"
    /\ UNCHANGED <<args, world, outfile, storeOps, err, cands, i, imtypes, diftypes, meta,
                   IA, chan_batch, chan, xds, result>>

\* lines 167-168
ArtifactOpen ==
    /\ pc = "artifact"
    /\ j <= Len(imtypes)
    /\ IA' = imtypes[j]
    /\ pc' = "read"
    /\ UNCHANGED <<args, world, outfile, storeOps, err, cands, i, imtypes, diftypes, meta,
                   chan_batch, chan, pt, chunk_coords, xdas, j, xds, result>>

\* lines 171-184: the pixels, and the pixel mask if any, of the open image
ArtifactRead ==
    /\ pc = "read"
    /\ LET imtype == imtypes[j]
           imchunk == GetChunk(IA, pt[1], pt[2])
       IN  IF imtype = "sumwt" /\ ~CanReshape(imchunk.shape)
           THEN Raise("ValueError: reshape") /\ UNCHANGED xdas
           ELSE /\ xdas' = WithMask(WithPixels(xdas, imtype, imchunk, meta.dims),
                                    IA, imchunk, meta.dims)
                /\ pc' = "close"
                /\ UNCHANGED err
    /\ UNCHANGED <<args, world, outfile, storeOps, cands, i, imtypes, diftypes, meta, IA,
                   chan_batch, chan, pt, chunk_coords, j, xds, result>>

\* line 186
ArtifactClose ==
    /\ pc = "close"
    /\ IA' = Closed(IA)
    /\ j' = j + 1
    /\ pc' = "artifact"
    /\ UNCHANGED <<args, world, outfile, storeOps, err, cands, i, imtypes, diftypes, meta,
                   chan_batch, chan, pt, chunk_coords, xdas, xds, result>>

\* lines 188-199: the dataset of the batch is built, transposed and written
Assemble ==
    /\ pc = "artifact"
    /\ j > Len(imtypes)
    /\ LET ds == Dataset(xdas, chunk_coords)
           mode == WriteMode(chan, nofile)
       IN  IF ~Aligned(ds)
           THEN Raise("ValueError: conflicting sizes")
                /\ UNCHANGED <<xds, outfile, storeOps, chan>>
           ELSE IF "pol" \in DsDims(ds) /\ ~CanTranspose(ds)
           THEN Raise(IF "image" \in DOMAIN xdas THEN "ValueError: transpose"
                                                 ELSE "AttributeError: image")
                /\ xds' = ds
                /\ UNCHANGED <<outfile, storeOps, chan>>
           ELSE /\ xds' = IF "pol" \in DsDims(ds) THEN Transposed(ds) ELSE ds
                /\ outfile' = Written(outfile, xds', mode)
                /\ storeOps' = IF mode = "" THEN storeOps
                               ELSE Append(storeOps, StoreOp(mode, chan, ChanSize(xds')))
                /\ chan' = chan + chan_batch
                /\ pc' = "batch"
                /\ UNCHANGED err
    /\ UNCHANGED <<args, world, cands, i, imtypes, diftypes, meta, IA, chan_batch, pt,
                   chunk_coords, xdas, j, result>>

\* lines 201-206: the loop has ended; the store is reopened unless nofile
Finish ==
    /\ pc = "batch"
    /\ chan >= meta.dsize[IndexOf(meta.dims, "chan")]
    /\ result' = IF nofile THEN xds ELSE [vars |-> outfile.vars, coords |-> outfile.coords]
    /\ storeOps' = IF nofile THEN storeOps ELSE Append(storeOps, StoreOp("open", 0, 0))
    /\ pc' = "done"
    /\ UNCHANGED <<args, world, outfile, err, cands, i, imtypes, diftypes, meta, IA,
                   chan_batch, chan, pt, chunk_coords, xdas, j, xds>>

Next ==
    \/ Setup
    \/ DiscoverAbsent
    \/ DiscoverOpen
    \/ DiscoverCompare
    \/ Prepare
    \/ BatchBegin
    \/ ArtifactOpen
    \/ ArtifactRead
    \/ ArtifactClose
    \/ Assemble
    \/ Finish

\* ------------------------------------------------------------- the calls
\* the state on entry to convert_image
Entry ==
    /\ pc = "start" /\ err = ""
    /\ cands = <<>> /\ i = 0
    /\ imtypes = <<>> /\ diftypes = <<>> /\ meta = NoMeta
    /\ IA = NoHandle
    /\ chan_batch = 0 /\ chan = 0 /\ pt = <<-1, -1>>
    /\ chunk_coords = EmptyMap /\ xdas = EmptyMap /\ j = 0
    /\ xds = Dataset(EmptyMap, EmptyMap)
    /\ result = Dataset(EmptyMap, EmptyMap)
    /\ storeOps = <<>>

\* native axis orders of the images
AxisOrders ==
    {<<"Right Ascension", "Declination", "Stokes", "Frequency">>,
     <<"Right Ascension", "Declination", "Frequency", "Stokes">>,
     <<"Right Ascension", "Declination", "Frequency">>,
     <<"Frequency", "Right Ascension", "Declination", "Stokes">>}

\* what may be on disk next to the primary image sfx: every candidate is absent
\* or has a sky extent of 1..MaxNx; sumwt has degenerate sky axes
Disks(sfx, types) ==
    {d \in [{sfx} \cup types -> 0..MaxNx] : "sumwt" \in DOMAIN d => d["sumwt"] <= 1}

\* calls that differ in what is on disk and in the artifacts argument
Init ==
    /\ Entry
    /\ suffix \in {"image", "fits", "residual"}
    /\ artifacts \in {<<"None">>, <<"sumwt", "model", "image">>}
    /\ chunk_shape = <<-1, -1, 1, 1>> /\ chunkIsList = FALSE
    /\ nofile \in BOOLEAN
    /\ disk \in Disks(suffix, {"mask", "model", "sumwt"})
    /\ masks = {}
    /\ axisnames = <<"Right Ascension", "Declination", "Stokes", "Frequency">>
    /\ nchan = 1 /\ npol = 1 /\ refval = 0
    /\ outfile \in {NoStore, OldStore} /\ outfile0 = outfile

Spec == Init /\ [][Next]_vars

\* calls that differ in the channels, the batch size and the mode
InitBatches ==
    /\ Entry
    /\ suffix = "image"
    /\ artifacts = <<"None">>
    /\ chunk_shape \in {<<-1, -1, 1, c>> : c \in {-1} \cup 1..(MaxChan + 1)}
    /\ chunkIsList \in BOOLEAN
    /\ nofile \in BOOLEAN
    /\ disk \in {d \in Disks(suffix, {"model", "sumwt"}) : d[suffix] = 1}
    /\ masks = {}
    /\ axisnames = <<"Right Ascension", "Declination", "Stokes", "Frequency">>
    /\ nchan \in 1..MaxChan /\ npol = 1 /\ refval \in {0, 7}
    /\ outfile \in {NoStore, OldStore} /\ outfile0 = outfile

SpecBatches == InitBatches /\ [][Next]_vars

\* calls that differ in the axis order, the polarizations and the pixel masks
InitShaping ==
    /\ Entry
    /\ suffix \in {"image", "fits", "residual"}
    /\ artifacts = <<"None">>
    /\ nchan \in 1..MaxChan
    /\ chunk_shape \in {<<-1, -1, 1, 1>>, <<-1, -1, 1, nchan>>}
    /\ chunkIsList = FALSE
    /\ nofile \in BOOLEAN
    /\ disk \in {d \in [{suffix, "mask", "model", "sumwt"} -> 0..1] : d[suffix] = 1}
    /\ masks \in SUBSET {suffix, "model"}
    /\ axisnames \in AxisOrders
    /\ npol \in 1..MaxPol /\ refval = 0
    /\ outfile = NoStore /\ outfile0 = outfile

SpecShaping == InitShaping /\ [][Next]_vars

\* ------------------------------------------------------------- properties
\* the candidates that are on disk
Present == {t \in Range(cands) : Exists(t)}

\* the first candidate, in iteration order, that is on disk
Reference == cands[CHOOSE k \in DOMAIN cands :
                       Exists(cands[k]) /\ \A m \in 1..(k - 1) : ~Exists(cands[m])]

\* the discovery loop has ended
Discovered == pc # "start" /\ i > Len(cands)

\* C1: after the discovery loop imtypes holds exactly the candidates on disk
\* whose shape is the shape of the reference, and sumwt if it is on disk;
\* diftypes holds exactly the other candidates on disk; the two are disjoint
\* and a candidate that is not on disk is in neither.
C1_Partition ==
    Discovered =>
        /\ Range(imtypes) =
              {t \in Present : ImShape(t) = ImShape(Reference) \/ t = "sumwt"}
        /\ Range(diftypes) =
              {t \in Present : ImShape(t) # ImShape(Reference) /\ t # "sumwt"}
        /\ Range(imtypes) \cap Range(diftypes) = {}
        /\ \A t \in Range(cands) \ Present :
              t \notin Range(imtypes) /\ t \notin Range(diftypes)

\* a reference, a second artifact of its shape, one of another shape, and a
\* sumwt whose shape is not the reference's
C1_Witness ==
    /\ Discovered
    /\ "sumwt" \in Range(imtypes)
    /\ ImShape("sumwt") # ImShape(Reference)
    /\ Cardinality(Range(imtypes)) >= 3
    /\ diftypes # <<>>

\* C3 (as claimed): when no candidate is on disk the call fails, and on that
\* run what was at the output path before the call is still there, unchanged.
C3_OutputUntouched ==
    (Discovered /\ Present = {}) =>
        /\ pc \in {"discover", "failed"}
        /\ pc = "failed" => ~meta.set /\ outfile = outfile0

\* C9: no image is open before the first open, between the close of one
\* artifact and the open of the next, when the batch is written and when the
\* function returns; while one is open it is the artifact being processed.
C9_HandleScoped ==
    /\ pc \in {"start", "discover", "batch", "artifact", "done"} => IA = NoHandle
    /\ pc = "summary" => IA = cands[i]
    /\ pc \in {"read", "close"} => IA = imtypes[j]

\* the function has returned after opening artifacts on the compatible and on
\* the mismatch path
C9_Witness ==
    /\ pc = "done"
    /\ diftypes # <<>>
    /\ Len(imtypes) >= 2
    /\ IA = NoHandle

\* the length of the channel axis of the reference
NChan == meta.dsize[IndexOf(meta.dims, "chan")]

\* the batch loop is running
InBatches == pc \in {"batch", "artifact", "read", "close"}

\* ceil(n / b)
CeilDiv(n, b) == (n + b - 1) \div b

\* the writes among the operations on the output path
Writes == SelectSeq(storeOps, LAMBDA o : o.op \in {"w", "a"})

\* C2 (as claimed): in a persisted conversion with batch size 1 <= b <= N,
\* batch k reads the channels [k*b, min((k+1)*b, N)), so every read lies
\* inside the channel axis; the call does not fail on a batch; and at the end
\* ceil(N/b) writes were made, of sizes b, ..., b and the remainder, that
\* together hold the channels 0..N-1 in order.
C2_ChannelBatches ==
    (~nofile /\ meta.set /\ chan_batch >= 1 /\ chan_batch <= NChan) =>
        /\ pc \in {"artifact", "read", "close"} =>
              /\ pt = <<chan, Min(chan + chan_batch, NChan) - 1>>
              /\ pt[2] <= NChan - 1
        /\ err # "ValueError: conflicting sizes"
        /\ pc = "done" =>
              /\ Len(Writes) = CeilDiv(NChan, chan_batch)
              /\ \A k \in DOMAIN Writes :
                    Writes[k].size = Min(k * chan_batch, NChan) - (k - 1) * chan_batch
              /\ \A v \in DOMAIN outfile.vars :
                    outfile.vars[v].chans = [k \in 1..NChan |-> k - 1]

\* C4: in a persisted run the operations on the output path are, in this
\* order: the removal of what was there, one create for the batch that starts
\* at channel 0, appends with increasing start channels, and, once every
\* batch is written, the reopening; a run that returns made one write a batch.
C4_StoreOrder ==
    ~nofile =>
        /\ pc # "start" => Len(storeOps) >= 1
        /\ Writes = <<>> /\ pc # "start" => ~outfile.exists
        /\ \A k \in DOMAIN storeOps :
              LET o == storeOps[k]
              IN  /\ k = 1 <=> o.op = "rm"
                  /\ k = 2 <=> o.op = "w"
                  /\ o.op = "w" => o.chan = 0
                  /\ o.op = "a" => /\ storeOps[k - 1].op \in {"w", "a"}
                                   /\ o.chan > storeOps[k - 1].chan
                  /\ o.op = "open" => /\ k = Len(storeOps)
                                      /\ pc = "done"
                                      /\ storeOps[k - 1].op \in {"w", "a"}
                                      /\ storeOps[k - 1].chan + chan_batch >= NChan
        /\ pc = "done" =>
              /\ storeOps[Len(storeOps)].op = "open"
              /\ Len(Writes) = CeilDiv(NChan, chan_batch)
              /\ \A k \in DOMAIN Writes : Writes[k].chan = (k - 1) * chan_batch

\* a persisted run over a path that held a store returned after a create and
\* two appends
C4_Witness ==
    /\ ~nofile
    /\ pc = "done"
    /\ outfile0.exists
    /\ Len(storeOps) >= 5

\* C6: with nofile no operation is issued on the output path, which stays as
\* it was; the one batch is the whole channel axis whatever chunk_shape says;
\* and the dataset returned is the one built from that batch.
C6_NoFile ==
    nofile =>
        /\ storeOps = <<>>
        /\ outfile = outfile0
        /\ InBatches => chan_batch = NChan /\ chan \in {0, NChan}
        /\ pc \in {"artifact", "read", "close"} => chan = 0 /\ pt = <<0, NChan - 1>>
        /\ pc = "done" =>
              /\ result = xds
              /\ ChanSize(result) = NChan
              /\ \A v \in DOMAIN result.vars :
                    result.vars[v].chans = [k \in 1..NChan |-> k - 1]

\* a nofile call on an image of several channels, with a chunk_shape of one
\* channel and a store at the output path, has returned
C6_Witness ==
    /\ nofile
    /\ pc = "done"
    /\ nchan >= 2
    /\ chunk_shape[4] = 1
    /\ outfile0.exists
    /\ DOMAIN result.vars # {}

\* C7 (as claimed): in every batch the channel coordinate of the record is the
\* reference's channel coordinate (the world values) restricted to the
\* channels of the batch, and every other coordinate is the reference's.
C7_ChanCoordWorld ==
    pc \in {"artifact", "read", "close"} =>
        /\ chunk_coords["chan"].vals =
              SubSeq(meta.coords["chan"].vals, chan + 1, Min(chan + chan_batch, NChan))
        /\ \A c \in DOMAIN meta.coords \ {"chan"} : chunk_coords[c] = meta.coords[c]
        /\ DOMAIN chunk_coords = DOMAIN meta.coords

\* the last two dimensions of an array
LastTwo(a) == SubSeq(a.dims, Len(a.dims) - 1, Len(a.dims))

\* C5 (as claimed): the reordering never fails, and when a polarization axis
\* is present every variable of a reordered batch ends in (chan, pol).
C5_ChanPolLast ==
    "Stokes" \in Range(axisnames) =>
        /\ err \notin {"AttributeError: image", "ValueError: transpose"}
        /\ (pc \in {"batch", "done"} /\ chan > 0) =>
              \A v \in DOMAIN xds.vars : LastTwo(xds.vars[v]) = <<"chan", "pol">>

\* the channels of the batch being read
BatchChans == [k \in 1..(Min(chan + chan_batch, NChan) - chan) |-> chan + k - 1]

\* C8 (as claimed): the shaping of sumwt never fails on the element count, and
\* a sumwt whose chunk has degenerate sky axes, npol polarizations and the
\* channels of the batch is stored with dimensions (pol, chan), shape
\* (npol, size) and the elements read.
C8_SumwtShape ==
    /\ err # "ValueError: reshape"
    /\ (pc = "close" /\ imtypes[j] = "sumwt" /\ "Stokes" \in Range(axisnames)) =>
          /\ xdas["sumwt"].dims = <<"pol", "chan">>
          /\ xdas["sumwt"].shape = <<npol, Len(BatchChans)>>
          /\ xdas["sumwt"].chans = BatchChans

\* the artifacts of the batch whose read has completed
Processed == IF pc = "close" THEN j ELSE j - 1

\* the positions in imtypes, among those processed, of the artifacts that
\* carry a pixel mask
Carriers == {k \in 1..Processed : imtypes[k] \in masks}

\* C10: while a batch is read, once an artifact with a pixel mask was
\* processed, 'mask' holds the pixel mask, for the channels of the batch, of
\* the last such artifact processed, never the pixels of the mask image; the
\* pixels of the mask image are under 'deconvolve', cast to bool.
C10_MaskVariable ==
    pc \in {"artifact", "close"} =>
        /\ Carriers # {} =>
              /\ "mask" \in DOMAIN xdas
              /\ xdas["mask"].kind = "pixelmask"
              /\ xdas["mask"].bool
              /\ xdas["mask"].chans = GetChunk(xdas["mask"].src, pt[1], pt[2]).chans
              /\ \E k \in Carriers : /\ \A m \in Carriers : m <= k
                                    /\ xdas["mask"].src = imtypes[k]
        /\ (\E k \in 1..Processed : imtypes[k] = "mask") =>
              /\ "deconvolve" \in DOMAIN xdas
              /\ xdas["deconvolve"].src = "mask"
              /\ xdas["deconvolve"].kind = "pixels"
              /\ xdas["deconvolve"].bool
        /\ \A v \in DOMAIN xdas :
              (xdas[v].src = "mask" /\ xdas[v].kind = "pixels") => v # "mask"

\* every artifact of a batch was read: the mask image, and two artifacts with
\* pixel masks, of which the model is the last
C10_Witness ==
    /\ pc = "artifact"
    /\ j > Len(imtypes)
    /\ "mask" \in Range(imtypes)
    /\ Cardinality(Carriers) >= 2
    /\ xdas["mask"].src = "model"
    /\ nchan >= 2
====
